---- MODULE Spec2Model ----
(***************************************************************************)
(* A model of the PDF upload backend (src/backend/src/server.ts): the      *)
(* pdf_files table (the catalog), the upload directory (the blob store),   *)
(* and the request handlers of the HTTP API, one action per step between   *)
(* two awaits.  Strings are sequences of one-character strings.            *)
(***************************************************************************)
EXTENDS Integers, Sequences, FiniteSets, TLC

(***************************************************************************)
(* Bounds of the model.                                                    *)
(***************************************************************************)
\* requests that arrive in one behaviour
MaxOps == 2
\* file parts one multipart request may carry
MaxParts == 2
\* values uuidv4() draws from
MaxId == 3
\* the clock (Date.now(), CURRENT_TIMESTAMP) runs 0..MaxClock
MaxClock == 1
\* rows the catalog holds when a behaviour starts from a populated system
MaxRows == 3
\* requests of a behaviour that deletes a file, uploads and downloads
MaxLater == 3
\* the highest page number and page size a client asks for
MaxPage == 2
\* failures of the environment (a query the database rejects, a disk write or
\* unlink that fails) in one behaviour
MaxFaults == 1
\* byte counts given to formatFileSize are m * 1024^e with m in 0..MaxMantissa
\* and e in 0..MaxExp
MaxMantissa == 2048
MaxExp == 4
\* process.env.MAX_FILE_SIZE, in scaled units (server.ts:24)
MAX_FILE_SIZE == 2

\* request slots: the requests that may be in flight at the same time
Reqs == {1, 2}
Ids == 1..MaxId
\* an :id of a request path that is not the text of a uuid
NotUuid == MaxId + 1
\* the values Math.round(Math.random() * 1E9) draws from: two draws agree or differ
Rands == {0, 1}

(***************************************************************************)
(* Strings.                                                                *)
(***************************************************************************)
Whitespace == {" "}

\* s.indexOf(pat): the first position where pat occurs in s, 0 when none
IndexOf(s, pat) ==
  LET hits == {k \in 1..(Len(s) - Len(pat) + 1) : SubSeq(s, k, k + Len(pat) - 1) = pat}
  IN  IF hits = {} THEN 0 ELSE CHOOSE k \in hits : \A j \in hits : k <= j

\* s.replace(pat, rep) with a string pattern: the first occurrence only
ReplaceFirst(s, pat, rep) ==
  LET k == IndexOf(s, pat)
  IN  IF k = 0 THEN s
      ELSE SubSeq(s, 1, k - 1) \o rep \o SubSeq(s, k + Len(pat), Len(s))

\* originalname.replace(/\s+/g, '_'): every maximal run of whitespace becomes one "_"
safeName(s) ==
  LET F[k \in 0..Len(s)] ==
        IF k = 0 THEN <<>>
        ELSE IF s[k] \in Whitespace
             THEN IF k > 1 /\ s[k - 1] \in Whitespace THEN F[k - 1] ELSE Append(F[k - 1], "_")
             ELSE Append(F[k - 1], s[k])
  IN  F[Len(s)]

DotPdf == <<".", "p", "d", "f">>

\* a letter in lower case
Lower(c) ==
  CASE c = "A" -> "a"
    [] c = "B" -> "b"
    [] c = "Q" -> "q"
    [] OTHER   -> c

\* PostgreSQL's `str ILIKE pat`: % matches any run of characters, _ any one
\* character, a backslash takes the next character literally, letters match
\* without regard to case.  LikeFrom matches str from position i on against pat
\* from position j on.
RECURSIVE LikeFrom(_, _, _, _)
LikeFrom(str, i, pat, j) ==
  IF j > Len(pat) THEN i > Len(str)
  ELSE IF pat[j] = "%" THEN \E k \in i..(Len(str) + 1) : LikeFrom(str, k, pat, j + 1)
  ELSE IF pat[j] = "_" THEN i <= Len(str) /\ LikeFrom(str, i + 1, pat, j + 1)
  ELSE IF pat[j] = "\\"
       THEN /\ j < Len(pat)
            /\ i <= Len(str)
            /\ Lower(str[i]) = Lower(pat[j + 1])
            /\ LikeFrom(str, i + 1, pat, j + 2)
       ELSE /\ i <= Len(str)
            /\ Lower(str[i]) = Lower(pat[j])
            /\ LikeFrom(str, i + 1, pat, j + 1)

ILike(str, pat) == LikeFrom(str, 1, pat, 1)

\* a pattern that ends in its escape character is an error of the query
RECURSIVE BadEscapeFrom(_, _)
BadEscapeFrom(pat, j) ==
  IF j > Len(pat) THEN FALSE
  ELSE IF pat[j] = "\\" THEN j = Len(pat) \/ BadEscapeFrom(pat, j + 2)
  ELSE BadEscapeFrom(pat, j + 1)

BadEscape(pat) == BadEscapeFrom(pat, 1)

(***************************************************************************)
(* formatFileSize                                                          *)
(***************************************************************************)
sizes == <<"Bytes", "KB", "MB", "GB">>

RECURSIVE Pow(_, _)
Pow(b, e) == IF e = 0 THEN 1 ELSE b * Pow(b, e - 1)

\* Math.floor(Math.log(bytes) / Math.log(1024)) for bytes >= 1
RECURSIVE FloorLog(_, _)
FloorLog(bytes, k) == IF bytes < k THEN 0 ELSE 1 + FloorLog(bytes \div k, k)

\* the number in hundredths (toFixed(2), rounding half up) and the unit
formatFileSize(bytes) ==
  IF bytes = 0 THEN [hundredths |-> 0, unit |-> "Bytes"]
  ELSE LET k == 1024
           i == FloorLog(bytes, k)
       IN  [hundredths |-> (2 * 100 * bytes + Pow(k, i)) \div (2 * Pow(k, i)),
            unit |-> IF i + 1 <= Len(sizes) THEN sizes[i + 1] ELSE "undefined"]

\* formatFileSize(m * 1024^e): byte counts of a terabyte and more are beyond
\* the 32-bit integers of TLC, so such a count is given by m and e.  The
\* logarithm of m * 1024^e to the base 1024 is e more than that of m, and
\* bytes / Math.pow(k, i) is m divided by 1024^(i - e).
formatFileSizeOf(m, e) ==
  IF m = 0 THEN [hundredths |-> 0, unit |-> "Bytes"]
  ELSE LET k == 1024
           i == FloorLog(m, k) + e
       IN  [hundredths |-> (2 * 100 * m + Pow(k, i - e)) \div (2 * Pow(k, i - e)),
            unit |-> IF i + 1 <= Len(sizes) THEN sizes[i + 1] ELSE "undefined"]

(***************************************************************************)
(* JavaScript values, as far as the customNames field needs them:          *)
(* [t |-> type, v |-> content].                                            *)
(***************************************************************************)
JsUndefined == [t |-> "undefined", v |-> <<>>]
JsNull == [t |-> "null", v |-> <<>>]
JsStr(s) == [t |-> "string", v |-> s]
\* a number, by its decimal digits
JsNum(digits) == [t |-> "number", v |-> digits]
JsArr(elems) == [t |-> "array", v |-> elems]
\* an object, by the value of its property "0" (JsUndefined when it has none)
JsObj(p0) == [t |-> "object", v |-> <<p0>>]

\* x[k] for a zero-based index k; the result is [threw, val]
JsIndex(x, k) ==
  CASE x.t \in {"null", "undefined"} -> [threw |-> TRUE, val |-> JsUndefined]
    [] x.t = "array"  -> [threw |-> FALSE,
                          val |-> IF k + 1 <= Len(x.v) THEN x.v[k + 1] ELSE JsUndefined]
    [] x.t = "string" -> [threw |-> FALSE,
                          val |-> IF k + 1 <= Len(x.v) THEN JsStr(<<x.v[k + 1]>>) ELSE JsUndefined]
    [] x.t = "object" -> [threw |-> FALSE, val |-> IF k = 0 THEN x.v[1] ELSE JsUndefined]
    [] OTHER          -> [threw |-> FALSE, val |-> JsUndefined]

\* the values the || operator skips
JsFalsy(x) ==
  \/ x.t \in {"undefined", "null"}
  \/ x.t = "string" /\ x.v = <<>>
  \/ x.t = "number" /\ x.v = <<"0">>

\* the text the pg driver binds for a parameter that goes into a VARCHAR column
\* (a string as it is, a number by its digits, an object without properties as "{}")
PgText(x) ==
  CASE x.t = "string" -> x.v
    [] x.t = "number" -> x.v
    [] OTHER          -> <<"{", "}">>

(***************************************************************************)
(* The customNames form field: absent, or a text.  A text is modelled by   *)
(* what JSON.parse makes of it.                                            *)
(***************************************************************************)
FieldAbsent == [given |-> FALSE, text |-> "", json |-> JsUndefined]
FieldEmpty == [given |-> TRUE, text |-> "empty", json |-> JsUndefined]
FieldInvalid == [given |-> TRUE, text |-> "invalid", json |-> JsUndefined]
FieldJson(x) == [given |-> TRUE, text |-> "json", json |-> x]

\* `customNames ? JSON.parse(customNames) : []`; the result is [threw, val]
ParseCustomNames(field) ==
  IF ~field.given \/ field.text = "empty"
  THEN [threw |-> FALSE, val |-> JsArr(<<>>)]
  ELSE IF field.text = "invalid"
       THEN [threw |-> TRUE, val |-> JsUndefined]
       ELSE [threw |-> FALSE, val |-> field.json]

(***************************************************************************)
(* multer: the storage engine, the file filter and the limits.             *)
(***************************************************************************)
UPLOAD_DIR == "./uploads"
allowedMimes == {"application/pdf", "application/x-pdf"}
Mimes == allowedMimes \cup {"text/plain"}
\* the maxCount of upload.array('pdfFiles', 10), scaled to the batches of the
\* model (server.ts:108)
maxCount == 2

\* a file part of a multipart request
Part(originalname, mimetype, bytes) ==
  [originalname |-> originalname, mimetype |-> mimetype, bytes |-> bytes]

\* the declared names the model's clients submit: "a b.pdf" and "a_b.pdf"
NameAB == <<"a", " ", "b", ".", "p", "d", "f">>
NameA_B == <<"a", "_", "b", ".", "p", "d", "f">>

\* the parts the model's clients submit: two PDFs of different lengths, a text
\* file, and a PDF one unit above the size limit
Parts ==
  {Part(NameAB, "application/pdf", 1),
   Part(NameA_B, "application/x-pdf", MAX_FILE_SIZE),
   Part(NameAB, "text/plain", 1),
   Part(NameAB, "application/pdf", MAX_FILE_SIZE + 1)}

fileFilter(part) == part.mimetype \in allowedMimes

\* storage.filename: 'pdf-' + Date.now() + '-' + random + '-' + safeName
storageFilename(ts, rnd, originalname) ==
  [ts |-> ts, rnd |-> rnd, name |-> safeName(originalname)]

\* storage.destination joined with the file name: file.path
storagePath(filename) == [dir |-> UPLOAD_DIR, name |-> filename]

\* what multer hands the handler for a stored file (req.files[k])
MulterFile(part, filename, size) ==
  [originalname |-> part.originalname, mimetype |-> part.mimetype, size |-> size,
   filename |-> filename, path |-> storagePath(filename)]

(***************************************************************************)
(* State.                                                                  *)
(***************************************************************************)
VARIABLES
  catalog,  \* the rows of table pdf_files
  blobs,    \* the files on disk: path |-> byte length
  now,      \* the clock
  req,      \* req[r]: the request slot r handles, and where its handler stands
  ops,      \* how many requests have arrived
  faults,   \* how many failures the environment has injected
  cwd       \* the working directory the process was started in

vars == <<catalog, blobs, now, req, ops, faults, cwd>>

\* Directories.  A relative path names a location under the working directory
\* of the process; blobs is keyed by the paths as multer and fs get them, that
\* is by the locations Resolve(cwd, path).
BackendRoot == "backend"
Cwds == {BackendRoot, "elsewhere"}
Resolve(dir, path) == [base |-> dir, rel |-> path]

NoRow == [id |-> 0]
EmptyDisk == [p \in {} |-> 0]

\* a slot that handles nothing; a finished request keeps its response in the
\* slot until the next request arrives there
Idle ==
  [kind |-> "none", pc |-> "idle", n |-> 0, status |-> 0,
   files |-> <<>>, err |-> "", stuck |-> {}, field |-> FieldAbsent, names |-> JsUndefined, results |-> <<>>,
   respFiles |-> <<>>, id |-> 0, row |-> NoRow,
   search |-> <<>>, page |-> 0, limit |-> 0, total |-> 0, totalPages |-> 0,
   totalFiles |-> 0, totalSize |-> formatFileSize(0), sumBytes |-> 0, recentUploads |-> 0,
   sent |-> 0, sentName |-> <<>>, errorText |-> "", sumExp |-> 0,
   pre |-> [catalog |-> {}, blobs |-> EmptyDisk, faults |-> 0]]

Free(r) == req[r].pc \in {"idle", "done"}

\* a request may arrive at slot r
CanArrive(r) == Free(r) /\ ops < MaxOps

\* the count of arrived requests after a step of slot r
Arrived(r) == IF Free(r) THEN ops + 1 ELSE ops

\* whether an operation of the environment succeeds: it may fail while the
\* behaviour's failures are not used up
Outcomes == IF faults < MaxFaults THEN {TRUE, FALSE} ELSE {TRUE}
Faults(ok) == IF ok THEN faults ELSE faults + 1

\* the request that arrives at a free slot
Arrive(kind) ==
  [Idle EXCEPT !.kind = kind, !.pc = "start", !.n = ops + 1,
               !.pre = [catalog |-> catalog, blobs |-> blobs, faults |-> faults]]

\* the upload request of slot r: the one in flight, or the one arriving now
Upload(r) == IF Free(r) THEN Arrive("upload") ELSE req[r]

Respond(q, status) == [q EXCEPT !.pc = "done", !.status = status]

\* fs: write, remove
WriteBlob(b, path, size) == [p \in (DOMAIN b) \cup {path} |-> IF p = path THEN size ELSE b[p]]
RemoveBlobs(b, paths) == [p \in (DOMAIN b) \ paths |-> b[p]]

\* The values of uuidv4() and of Math.random() matter only by being equal or
\* different, so a draw is one of the values the state holds or the least value it
\* does not hold: every other draw gives the same state up to renaming.
Draws(S, used) == {v \in S : v \in used \/ \A w \in S \ used : v <= w}

UsedRands ==
  {p.name.rnd : p \in DOMAIN blobs} \cup {x.file_name.rnd : x \in catalog}
    \cup UNION {{req[r].files[k].filename.rnd : k \in 1..Len(req[r].files)} : r \in Reqs}
    \cup UNION {{p.name.rnd : p \in DOMAIN req[r].pre.blobs} : r \in Reqs}

UsedIds ==
  {x.id : x \in catalog} \cup {req[r].id : r \in Reqs} \cup {req[r].row.id : r \in Reqs}
    \cup UNION {{req[r].results[k].id : k \in 1..Len(req[r].results)} : r \in Reqs}
    \cup UNION {{x.id : x \in req[r].pre.catalog} : r \in Reqs}

Init ==
  /\ catalog = {}
  /\ blobs = EmptyDisk
  /\ now = 0
  /\ req = [r \in Reqs |-> Idle]
  /\ ops = 0
  /\ faults = 0
  /\ cwd \in Cwds

\* time passes
Tick ==
  /\ now < MaxClock
  /\ now' = now + 1
  /\ UNCHANGED <<catalog, blobs, req, ops, faults, cwd>>

(***************************************************************************)
(* POST /api/upload, first stage: multer receives the parts in order.      *)
(***************************************************************************)
InMulter(r) == CanArrive(r) \/ (req[r].kind = "upload" /\ req[r].pc = "multer")

\* multer rejects the part: the request is aborted
MulterReject(r) ==
  /\ InMulter(r)
  /\ Len(Upload(r).files) < MaxParts \/ Len(Upload(r).files) >= maxCount
  /\ \E part \in Parts :
       /\ Len(Upload(r).files) >= maxCount \/ ~fileFilter(part)
       /\ req' = [req EXCEPT ![r] =
            [Upload(r) EXCEPT !.pc = "abort",
               !.err = IF Len(Upload(r).files) >= maxCount
                       THEN "LIMIT_UNEXPECTED_FILE" ELSE "fileFilter"]]
  /\ ops' = Arrived(r)
  /\ UNCHANGED <<catalog, blobs, now, faults, cwd>>

\* multer streams an accepted part to disk under a generated name
MulterStore(r) ==
  /\ InMulter(r)
  /\ Len(Upload(r).files) < MaxParts
  /\ Len(Upload(r).files) < maxCount
  /\ \E part \in Parts, rnd \in Draws(Rands, UsedRands), written \in Outcomes :
       LET filename == storageFilename(now, rnd, part.originalname)
           path == storagePath(filename)
           size == IF part.bytes > MAX_FILE_SIZE THEN MAX_FILE_SIZE ELSE part.bytes
           file == MulterFile(part, filename, size)
       IN  /\ fileFilter(part)
           /\ faults' = Faults(written)
           /\ IF ~written
              THEN \* the write fails: the file is not among the uploaded files
                   /\ req' = [req EXCEPT ![r] = [Upload(r) EXCEPT !.pc = "abort", !.err = "EIO"]]
                   /\ UNCHANGED blobs
              ELSE /\ blobs' = WriteBlob(blobs, path, size)
                   /\ req' = [req EXCEPT ![r] =
                        IF part.bytes > MAX_FILE_SIZE
                        THEN \* the stream hits limits.fileSize: the truncated file is
                             \* kept among the uploaded files, to be removed
                             [Upload(r) EXCEPT !.pc = "abort", !.err = "LIMIT_FILE_SIZE",
                                               !.files = Append(@, file)]
                        ELSE [Upload(r) EXCEPT !.pc = "multer", !.files = Append(@, file)]]
  /\ ops' = Arrived(r)
  /\ UNCHANGED <<catalog, now, cwd>>

AbortRemovedNone(files, stuck) == {}

\* the paths multer's clean-up removes, given those whose unlink fails
AbortRemoved(files, stuck) == {files[k].path : k \in 1..Len(files)} \ stuck

handleUploadErrorNext(q) == Respond(q, 500)

\* multer removes the files it stored and passes the error to handleUploadError,
\* which answers 400: with a text of its own for LIMIT_FILE_SIZE, with
\* error.message (errorText, "" when the text is the handler's own) otherwise
handleUploadError(q) ==
  Respond([q EXCEPT !.errorText = IF q.err = "LIMIT_FILE_SIZE" THEN "" ELSE q.err], 400)

MulterAbort(r) ==
  /\ req[r].kind = "upload" /\ req[r].pc = "abort"
  /\ \E stuck \in SUBSET {req[r].files[k].path : k \in 1..Len(req[r].files)} :
       /\ (stuck = {}) \in Outcomes
       /\ faults' = Faults(stuck = {})
       /\ blobs' = RemoveBlobs(blobs, AbortRemoved(req[r].files, stuck))
       /\ req' = [req EXCEPT ![r] = handleUploadError([req[r] EXCEPT !.stuck = stuck])]
  /\ ops' = Arrived(r)
  /\ UNCHANGED <<catalog, now, cwd>>

(***************************************************************************)
(* POST /api/upload, second stage: the handler.                            *)
(***************************************************************************)
\* the customNames fields the model's clients send ("A" and "B" stand for the
\* names Alpha and Beta)
NameA == <<"A">>
NameB == <<"B">>
Fields ==
  {FieldAbsent, FieldInvalid, FieldJson(JsArr(<<JsStr(NameA), JsStr(NameB)>>))}

\* more of them: an empty text, JSON texts that are no array of strings, and
\* arrays with an empty name, a blank name, a name padded with blanks
AllFields ==
  Fields \cup
  {FieldEmpty,
   FieldJson(JsNull),
   FieldJson(JsNum(<<"7">>)),
   FieldJson(JsStr(<<"x", "y">>)),
   FieldJson(JsObj(JsUndefined)),
   FieldJson(JsArr(<<JsNum(<<"7">>)>>)),
   FieldJson(JsArr(<<JsStr(<<>>), JsStr(<<" ">>)>>)),
   FieldJson(JsArr(<<JsStr(<<" ", "A", " ">>)>>))}

\* `customNamesArray[i] || file.originalname.replace('.pdf', '')` for the file at
\* zero-based position i; the result is [threw, val]
customName(names, i, originalname) ==
  LET x == JsIndex(names, i)
  IN  IF x.threw THEN x
      ELSE [threw |-> FALSE,
            val |-> IF JsFalsy(x.val)
                    THEN JsStr(ReplaceFirst(originalname, DotPdf, <<>>))
                    ELSE x.val]

\* the row the INSERT of the loop makes for a file
InsertedRow(fileId, name, file, ts) ==
  [id |-> fileId, custom_name |-> PgText(name), original_name |-> file.originalname,
   file_name |-> file.filename, file_path |-> file.path, file_size |-> file.size,
   mime_type |-> file.mimetype, upload_date |-> ts]

\* the entry results.push adds for a file
ResultEntry(fileId, name, file) ==
  [id |-> fileId, customName |-> name, originalName |-> file.originalname,
   fileName |-> file.filename, fileSize |-> formatFileSize(file.size)]

UploadCatchPartial(q) == Respond([q EXCEPT !.respFiles = q.results], 500)

\* the catch block of the handler
UploadCatch(q) == Respond([q EXCEPT !.respFiles = <<>>], 500)

\* the multipart stream ends: the handler runs up to its first await
UploadHandlerOf(r, fields) ==
  /\ InMulter(r)
  /\ \E field \in fields :
       LET q == [Upload(r) EXCEPT !.field = field]
           parsed == ParseCustomNames(field)
       IN  req' = [req EXCEPT ![r] =
             IF Len(q.files) = 0 THEN Respond(q, 400)
             ELSE IF parsed.threw THEN Respond(q, 400)
             ELSE IF customName(parsed.val, 0, q.files[1].originalname).threw
                  THEN UploadCatch([q EXCEPT !.names = parsed.val, !.err = "TypeError"])
                  ELSE [q EXCEPT !.pc = "insert", !.names = parsed.val]]
  /\ ops' = Arrived(r)
  /\ UNCHANGED <<catalog, blobs, now, faults, cwd>>

UploadHandler(r) == UploadHandlerOf(r, Fields)

UploadHandlerAll(r) == UploadHandlerOf(r, AllFields)

UploadInsertNoKey(r) ==
  /\ req[r].kind = "upload" /\ req[r].pc = "insert"
  /\ \E fileId \in Draws(Ids, UsedIds), ok \in Outcomes :
       LET q == req[r]
           k == Len(q.results) + 1
           file == q.files[k]
           name == customName(q.names, k - 1, file.originalname).val
           q2 == [q EXCEPT !.results = Append(@, ResultEntry(fileId, name, file))]
       IN  /\ faults' = Faults(ok)
           /\ IF ~ok
              THEN \* the query rejects: the catch block answers
                   /\ req' = [req EXCEPT ![r] = UploadCatch([q EXCEPT !.err = "query"])]
                   /\ UNCHANGED catalog
              ELSE /\ catalog' = catalog \cup {InsertedRow(fileId, name, file, now)}
                   /\ req' = [req EXCEPT ![r] =
                        IF k = Len(q.files)
                        THEN Respond([q2 EXCEPT !.respFiles = q2.results], 200)
                        ELSE q2]
  /\ ops' = Arrived(r)
  /\ UNCHANGED <<blobs, now, cwd>>

\* the pending INSERT runs, and the handler continues up to its next await or
\* to its response
UploadInsert(r) ==
  /\ req[r].kind = "upload" /\ req[r].pc = "insert"
  /\ \E fileId \in Draws(Ids, UsedIds), ok \in Outcomes :
       LET q == req[r]
           k == Len(q.results) + 1
           file == q.files[k]
           name == customName(q.names, k - 1, file.originalname).val
           q2 == [q EXCEPT !.results = Append(@, ResultEntry(fileId, name, file))]
       IN  /\ faults' = Faults(ok)
           /\ IF ~ok \/ (\E x \in catalog : x.id = fileId)
              THEN \* the query rejects: the catch block answers
                   /\ req' = [req EXCEPT ![r] = UploadCatch([q EXCEPT !.err = "query"])]
                   /\ UNCHANGED catalog
              ELSE /\ catalog' = catalog \cup {InsertedRow(fileId, name, file, now)}
                   /\ req' = [req EXCEPT ![r] =
                        IF k = Len(q.files)
                        THEN Respond([q2 EXCEPT !.respFiles = q2.results], 200)
                        ELSE q2]
  /\ ops' = Arrived(r)
  /\ UNCHANGED <<blobs, now, cwd>>

(***************************************************************************)
(* GET /api/download/:id                                                   *)
(***************************************************************************)
\* the ids the model's clients ask for
PathIds == Draws(Ids, UsedIds) \cup {NotUuid}

\* `WHERE id = $1` on the column `id UUID`: the server rejects a value that
\* is not the text of a uuid ("invalid input syntax for type uuid")
uuidError(id) == id \notin Ids

\* `path.join(__dirname, '..', file.file_path)`: __dirname is a directory of
\* the backend root
downloadPath(file_path) == Resolve(BackendRoot, file_path)

\* fs.existsSync of a location
existsSync(location) == \E p \in DOMAIN blobs : Resolve(cwd, p) = location

\* the bytes at a location
ReadBlob(location) == blobs[CHOOSE p \in DOMAIN blobs : Resolve(cwd, p) = location]

DownloadSelectAny(r) ==
  /\ CanArrive(r)
  /\ \E id \in PathIds, ok \in Outcomes :
       LET q == [Arrive("download") EXCEPT !.id = id]
           rows == {x \in catalog : x.id = id}
       IN  /\ faults' = Faults(ok)
           /\ req' = [req EXCEPT ![r] =
                IF ~ok \/ uuidError(id) THEN Respond(q, 500)
                ELSE IF rows = {} THEN Respond(q, 200)
                ELSE [q EXCEPT !.pc = "send", !.row = CHOOSE x \in rows : TRUE]]
  /\ ops' = Arrived(r)
  /\ UNCHANGED <<catalog, blobs, now, cwd>>

\* the request arrives and its SELECT runs
DownloadSelect(r) ==
  /\ CanArrive(r)
  /\ \E id \in PathIds, ok \in Outcomes :
       LET q == [Arrive("download") EXCEPT !.id = id]
           rows == {x \in catalog : x.id = id}
       IN  /\ faults' = Faults(ok)
           /\ req' = [req EXCEPT ![r] =
                IF ~ok \/ uuidError(id) THEN Respond(q, 500)
                ELSE IF rows = {} THEN Respond(q, 404)
                ELSE [q EXCEPT !.pc = "send", !.row = CHOOSE x \in rows : TRUE]]
  /\ ops' = Arrived(r)
  /\ UNCHANGED <<catalog, blobs, now, cwd>>

\* the handler continues with the row: `fs.existsSync(filePath)`, then
\* res.download
DownloadSend(r) ==
  /\ req[r].kind = "download" /\ req[r].pc = "send"
  /\ LET file == req[r].row
     IN  req' = [req EXCEPT ![r] =
           IF ~existsSync(downloadPath(file.file_path))
           THEN Respond(req[r], 404)
           ELSE Respond([req[r] EXCEPT !.sent = ReadBlob(downloadPath(file.file_path)),
                                       !.sentName = file.custom_name \o DotPdf],
                        200)]
  /\ ops' = Arrived(r)
  /\ UNCHANGED <<catalog, blobs, now, faults, cwd>>

(***************************************************************************)
(* DELETE /api/files/:id                                                   *)
(***************************************************************************)
\* the request arrives and its SELECT runs
DeleteSelect(r) ==
  /\ CanArrive(r)
  /\ \E id \in PathIds, ok \in Outcomes :
       LET q == [Arrive("delete") EXCEPT !.id = id]
           rows == {x \in catalog : x.id = id}
       IN  /\ faults' = Faults(ok)
           /\ req' = [req EXCEPT ![r] =
                IF ~ok \/ uuidError(id) THEN Respond(q, 500)
                ELSE IF rows = {} THEN Respond(q, 404)
                ELSE [q EXCEPT !.pc = "deleteRow", !.row = CHOOSE x \in rows : TRUE]]
  /\ ops' = Arrived(r)
  /\ UNCHANGED <<catalog, blobs, now, cwd>>

\* the DELETE runs
DeleteRow(r) ==
  /\ req[r].kind = "delete" /\ req[r].pc = "deleteRow"
  /\ \E ok \in Outcomes :
       /\ faults' = Faults(ok)
       /\ IF ok
          THEN /\ catalog' = {x \in catalog : x.id # req[r].id}
               /\ req' = [req EXCEPT ![r].pc = "unlink"]
          ELSE /\ req' = [req EXCEPT ![r] = Respond(req[r], 500)]
               /\ UNCHANGED catalog
  /\ ops' = Arrived(r)
  /\ UNCHANGED <<blobs, now, cwd>>

\* `if (fs.existsSync(file.file_path)) fs.unlinkSync(file.file_path)`, and the response
DeleteUnlink(r) ==
  /\ req[r].kind = "delete" /\ req[r].pc = "unlink"
  /\ LET path == req[r].row.file_path
     IN  IF path \in DOMAIN blobs
         THEN \E ok \in Outcomes :
                /\ faults' = Faults(ok)
                /\ IF ok
                   THEN /\ blobs' = RemoveBlobs(blobs, {path})
                        /\ req' = [req EXCEPT ![r] = Respond(req[r], 200)]
                   ELSE \* unlinkSync throws: the catch block answers
                        /\ req' = [req EXCEPT ![r] = Respond(req[r], 500)]
                        /\ UNCHANGED blobs
         ELSE /\ req' = [req EXCEPT ![r] = Respond(req[r], 200)]
              /\ UNCHANGED <<blobs, faults>>
  /\ ops' = Arrived(r)
  /\ UNCHANGED <<catalog, now, cwd>>

(***************************************************************************)
(* GET /api/files                                                          *)
(***************************************************************************)
\* the search strings the model's clients send (the empty one: no search)
Searches == {<<>>, <<"a">>, <<"A">>}
\* more of them: the characters LIKE gives a meaning to
AllSearches == Searches \cup {<<"q">>, <<"_">>, <<"%">>, <<"a", "_">>, <<"\\">>}
\* the page numbers and page sizes they send
Pages == 1..MaxPage
Limits == 1..MaxPage

\* `WHERE custom_name ILIKE $3 OR original_name ILIKE $3` with $3 = '%' + search + '%';
\* no WHERE clause when search is empty
whereClause(x, search) ==
  \/ search = <<>>
  \/ ILike(x.custom_name, <<"%">> \o search \o <<"%">>)
  \/ ILike(x.original_name, <<"%">> \o search \o <<"%">>)

\* the query is in error
whereError(search) == search # <<>> /\ BadEscape(<<"%">> \o search \o <<"%">>)

\* the parameters $n the text of whereClause refers to
whereParams(search) == IF search = <<>> THEN {} ELSE {3}

\* the values bound to the page query, `queryParams`, and to the count query,
\* `search ? [...] : []`, by their number
queryParams(search) == IF search = <<>> THEN 2 ELSE 3
countParams(search) == IF search = <<>> THEN 0 ELSE 1

\* the server rejects a query whose text does not refer to each of the
\* parameters 1..bound and to no other ("could not determine data type of
\* parameter $1", "bind message supplies 1 parameters, but prepared statement
\* requires 3")
BindError(refs, bound) == refs # 1..bound

OrderByUploadDateAsc(S) ==
  {f \in [1..Cardinality(S) -> S] :
     /\ \A i, j \in 1..Cardinality(S) : i # j => f[i] # f[j]
     /\ \A i, j \in 1..Cardinality(S) : i < j => f[i].upload_date <= f[j].upload_date}

\* the orders in which `ORDER BY upload_date DESC` may return the rows S: rows
\* of equal upload_date come in any order
OrderByUploadDateDesc(S) ==
  {f \in [1..Cardinality(S) -> S] :
     /\ \A i, j \in 1..Cardinality(S) : i # j => f[i] # f[j]
     /\ \A i, j \in 1..Cardinality(S) : i < j => f[i].upload_date >= f[j].upload_date}

Min(a, b) == IF a <= b THEN a ELSE b

\* `LIMIT $1 OFFSET $2` of the ordered rows
LimitOffset(ordered, limitNum, offset) ==
  SubSeq(ordered, offset + 1, Min(offset + limitNum, Len(ordered)))

\* `SELECT COUNT(*) FROM pdf_files ${whereClause}`
CountQuery(search) == Cardinality({x \in catalog : whereClause(x, search)})

\* Math.ceil(count / limitNum)
totalPagesOf(count, limitNum) == (count + limitNum - 1) \div limitNum

\* the entry of the response for a row
ListEntry(x) ==
  [id |-> x.id, customName |-> x.custom_name, originalName |-> x.original_name,
   fileName |-> x.file_name, fileSize |-> formatFileSize(x.file_size),
   uploadDate |-> x.upload_date]

\* the request arrives and its first query, the page of rows, runs
ListPageOf(r, searches) ==
  /\ CanArrive(r)
  /\ \E search \in searches, page \in Pages, limit \in Limits, ok \in Outcomes :
       LET q == [Arrive("list") EXCEPT !.search = search, !.page = page, !.limit = limit]
           offset == (page - 1) * limit
       IN  /\ faults' = Faults(ok)
           /\ IF \/ ~ok
                 \/ whereError(search)
                 \/ BindError({1, 2} \cup whereParams(search), queryParams(search))
              THEN req' = [req EXCEPT ![r] = Respond(q, 500)]
              ELSE \E ordered \in OrderByUploadDateDesc({x \in catalog : whereClause(x, search)}) :
                     LET rows == LimitOffset(ordered, limit, offset)
                     IN  req' = [req EXCEPT ![r] =
                           [q EXCEPT !.pc = "count",
                                     !.respFiles = [k \in 1..Len(rows) |-> ListEntry(rows[k])]]]
  /\ ops' = Arrived(r)
  /\ UNCHANGED <<catalog, blobs, now, cwd>>

ListPage(r) == ListPageOf(r, Searches)

ListPageAll(r) == ListPageOf(r, AllSearches)

\* its second query, the count, runs, and the response is sent
ListCount(r) ==
  /\ req[r].kind = "list" /\ req[r].pc = "count"
  /\ \E ok \in Outcomes :
       /\ faults' = Faults(ok)
       /\ req' = [req EXCEPT ![r] =
            IF ~ok \/ BindError(whereParams(req[r].search), countParams(req[r].search))
            THEN Respond([req[r] EXCEPT !.respFiles = <<>>], 500)
            ELSE Respond([req[r] EXCEPT
                            !.total = CountQuery(req[r].search),
                            !.totalPages = totalPagesOf(CountQuery(req[r].search), req[r].limit)],
                         200)]
  /\ ops' = Arrived(r)
  /\ UNCHANGED <<catalog, blobs, now, cwd>>

(***************************************************************************)
(* GET /api/stats                                                          *)
(***************************************************************************)
\* INTERVAL '7 days', in ticks of the model's clock
SevenDays == 1

RECURSIVE SumSizes(_)
SumSizes(S) ==
  IF S = {} THEN 0
  ELSE LET x == CHOOSE y \in S : TRUE IN x.file_size + SumSizes(S \ {x})

\* the request arrives and `SELECT COUNT(*) FROM pdf_files` runs
StatsCount(r) ==
  /\ CanArrive(r)
  /\ \E ok \in Outcomes :
       /\ faults' = Faults(ok)
       /\ req' = [req EXCEPT ![r] =
            IF ~ok THEN Respond(Arrive("stats"), 500)
            ELSE [Arrive("stats") EXCEPT !.pc = "sum", !.totalFiles = Cardinality(catalog)]]
  /\ ops' = Arrived(r)
  /\ UNCHANGED <<catalog, blobs, now, cwd>>

\* `SELECT SUM(file_size)` runs
StatsSum(r) ==
  /\ req[r].kind = "stats" /\ req[r].pc = "sum"
  /\ \E ok \in Outcomes :
       /\ faults' = Faults(ok)
       /\ req' = [req EXCEPT ![r] =
            IF ~ok THEN Respond([req[r] EXCEPT !.totalFiles = 0], 500)
            ELSE [req[r] EXCEPT !.pc = "recent", !.sumBytes = SumSizes(catalog)]]
  /\ ops' = Arrived(r)
  /\ UNCHANGED <<catalog, blobs, now, cwd>>

\* the count of the last seven days runs, and the response is sent
StatsRecent(r) ==
  /\ req[r].kind = "stats" /\ req[r].pc = "recent"
  /\ \E ok \in Outcomes :
       /\ faults' = Faults(ok)
       /\ req' = [req EXCEPT ![r] =
            IF ~ok THEN Respond([req[r] EXCEPT !.totalFiles = 0, !.sumBytes = 0], 500)
            ELSE Respond([req[r] EXCEPT
                            !.totalSize = formatFileSize(req[r].sumBytes),
                            !.recentUploads =
                               Cardinality({x \in catalog : x.upload_date >= now - SevenDays})],
                         200)]
  /\ ops' = Arrived(r)
  /\ UNCHANGED <<catalog, blobs, now, cwd>>

\* formatFileSize applied to a byte count m * 1024^e (a file_size, or the sum
\* of the sizes that the statistics format); slot r keeps the count and the
\* text
FormatFileSize(r) ==
  /\ CanArrive(r)
  /\ \E m \in 0..MaxMantissa, e \in 0..MaxExp :
       req' = [req EXCEPT ![r] =
         Respond([Arrive("formatFileSize") EXCEPT
                    !.sumBytes = m, !.sumExp = e, !.totalSize = formatFileSizeOf(m, e)],
                 200)]
  /\ ops' = Arrived(r)
  /\ UNCHANGED <<catalog, blobs, now, faults, cwd>>

(***************************************************************************)
(* Specifications.                                                         *)
(***************************************************************************)
Step(r) ==
  \/ MulterReject(r)
  \/ MulterStore(r)
  \/ MulterAbort(r)
  \/ UploadHandler(r)
  \/ UploadInsert(r)
  \/ DownloadSelect(r)
  \/ DownloadSend(r)
  \/ DeleteSelect(r)
  \/ DeleteRow(r)
  \/ DeleteUnlink(r)
  \/ ListPage(r)
  \/ ListCount(r)
  \/ StatsCount(r)
  \/ StatsSum(r)
  \/ StatsRecent(r)

\* requests of all slots interleave at their awaits
Next == Tick \/ \E r \in Reqs : Step(r)

Spec == Init /\ [][Next]_vars

\* one request at a time: each runs to its response before the next arrives
NextSeq == Tick \/ Step(1)

SpecSeq == Init /\ [][NextSeq]_vars

\* A populated system: rows as earlier uploads left them, each with its blob.
\* Row k was stored under the random number k, its id is k.
SeedPairs ==
  {[custom |-> <<"Q", "a">>, original |-> <<"b", ".", "p", "d", "f">>],
   [custom |-> <<"b">>, original |-> NameA_B]}

SeedFile(k, original, ts) ==
  MulterFile(Part(original, "application/pdf", 1), storageFilename(ts, k, original), 1)

SeedRow(k, pair, ts) ==
  InsertedRow(k, JsStr(pair.custom), SeedFile(k, pair.original, ts), ts)

Seeded(rows, arrived) ==
  /\ \E m \in 0..rows :
       \E pairs \in [1..m -> SeedPairs], dates \in [1..m -> 0..MaxClock] :
         /\ catalog = {SeedRow(k, pairs[k], dates[k]) : k \in 1..m}
         /\ blobs = [path \in {SeedFile(k, pairs[k].original, dates[k]).path : k \in 1..m} |-> 1]
         /\ now \in {t \in 0..MaxClock : \A k \in 1..m : dates[k] <= t}
  /\ req = [r \in Reqs |-> Idle]
  /\ ops = arrived
  /\ faults = 0
  /\ cwd \in Cwds

\* uploads, one at a time, with every customNames field of AllFields
NextFields ==
  \/ Tick
  \/ MulterReject(1)
  \/ MulterStore(1)
  \/ MulterAbort(1)
  \/ UploadHandlerAll(1)
  \/ UploadInsert(1)

InitFields == Seeded(0, MaxOps - 1)

SpecFields == InitFields /\ [][NextFields]_vars

\* one list request over a populated system, with every search of AllSearches
InitList == Seeded(MaxRows, MaxOps - 1)

NextList == Tick \/ ListPageAll(1) \/ ListCount(1)

SpecList == InitList /\ [][NextList]_vars

\* an upload and then a reading request, over a populated system that leaves
\* ids for a full batch
Alone(r) == \A o \in Reqs \ {r} : Free(o)

InitScenario == Seeded(MaxId - MaxParts, 0)

NextScenario ==
  \/ Tick
  \/ Alone(1) /\ MulterReject(1)
  \/ Alone(1) /\ MulterStore(1)
  \/ Alone(1) /\ MulterAbort(1)
  \/ Alone(1) /\ UploadHandler(1)
  \/ Alone(1) /\ UploadInsert(1)
  \/ Alone(2) /\ ListPage(2)
  \/ Alone(2) /\ ListCount(2)
  \/ Alone(2) /\ StatsCount(2)
  \/ Alone(2) /\ StatsSum(2)
  \/ Alone(2) /\ StatsRecent(2)

SpecScenario == InitScenario /\ [][NextScenario]_vars

\* a delete in slot 1, and once it is answered 200, uploads and downloads in
\* slot 2, one request at a time, over a populated system that leaves ids for
\* a full batch
InitLater == Seeded(MaxId - MaxParts, MaxOps - MaxLater)

Later(r) ==
  /\ Alone(r)
  /\ req[1].kind = "delete" /\ req[1].pc = "done" /\ req[1].status = 200

NextLater ==
  \/ Tick
  \/ Alone(1) /\ DeleteSelect(1)
  \/ Alone(1) /\ DeleteRow(1)
  \/ Alone(1) /\ DeleteUnlink(1)
  \/ Later(2) /\ MulterReject(2)
  \/ Later(2) /\ MulterStore(2)
  \/ Later(2) /\ MulterAbort(2)
  \/ Later(2) /\ UploadHandler(2)
  \/ Later(2) /\ UploadInsert(2)
  \/ Later(2) /\ DownloadSelect(2)
  \/ Later(2) /\ DownloadSend(2)

SpecLater == InitLater /\ [][NextLater]_vars

\* a stats request in slot 2 while an upload or a delete runs in slot 1, their
\* steps interleaved, over a populated system that leaves ids for a full batch
NextStats ==
  \/ Tick
  \/ MulterReject(1)
  \/ MulterStore(1)
  \/ MulterAbort(1)
  \/ UploadHandler(1)
  \/ UploadInsert(1)
  \/ DeleteSelect(1)
  \/ DeleteRow(1)
  \/ DeleteUnlink(1)
  \/ StatsCount(2)
  \/ StatsSum(2)
  \/ StatsRecent(2)

SpecStats == InitScenario /\ [][NextStats]_vars

\* a list request in slot 2 while an upload or a delete runs in slot 1, their
\* steps interleaved, over a populated system that leaves ids for a full batch
NextListing ==
  \/ Tick
  \/ MulterReject(1)
  \/ MulterStore(1)
  \/ MulterAbort(1)
  \/ UploadHandler(1)
  \/ UploadInsert(1)
  \/ DeleteSelect(1)
  \/ DeleteRow(1)
  \/ DeleteUnlink(1)
  \/ ListPage(2)
  \/ ListCount(2)

SpecListing == InitScenario /\ [][NextListing]_vars

\* a download in slot 2 while an upload or a delete runs in slot 1, their
\* steps interleaved, over a populated system that leaves ids for a full batch
NextRace ==
  \/ Tick
  \/ MulterReject(1)
  \/ MulterStore(1)
  \/ MulterAbort(1)
  \/ UploadHandler(1)
  \/ UploadInsert(1)
  \/ DeleteSelect(1)
  \/ DeleteRow(1)
  \/ DeleteUnlink(1)
  \/ DownloadSelect(2)
  \/ DownloadSend(2)

SpecRace == InitScenario /\ [][NextRace]_vars

\* two deletes, their steps interleaved, over a populated system
InitDeletes == Seeded(MaxRows, 0)

NextDeletes ==
  \/ Tick
  \/ \E r \in Reqs : DeleteSelect(r) \/ DeleteRow(r) \/ DeleteUnlink(r)

SpecDeletes == InitDeletes /\ [][NextDeletes]_vars

\* two list requests, one after the other, over a populated system that no
\* request writes to
InitPaging == Seeded(MaxRows, 0)

NextPaging ==
  \/ Tick
  \/ Alone(1) /\ ListPage(1)
  \/ Alone(1) /\ ListCount(1)
  \/ Alone(2) /\ ListPage(2)
  \/ Alone(2) /\ ListCount(2)

SpecPaging == InitPaging /\ [][NextPaging]_vars

\* formatFileSize applied once, to every byte count of the bounds
NextFormat == FormatFileSize(1)

SpecFormat == InitFields /\ [][NextFormat]_vars

(***************************************************************************)
(* Claims.                                                                 *)
(***************************************************************************)
Quiet == \A r \in Reqs : Free(r)

Done(r, kind) == req[r].kind = kind /\ req[r].pc = "done"

RowsAt(path) == {x \in catalog : x.file_path = path}

\* C1: when all requests have completed, catalog and blob store correspond one
\* to one: every row has a blob at its file_path, and every blob is the
\* file_path of exactly one row.
C1_OneToOne ==
  Quiet =>
    /\ \A x \in catalog : x.file_path \in DOMAIN blobs
    /\ \A path \in DOMAIN blobs : Cardinality(RowsAt(path)) = 1

\* C2: an upload answered with success lists one entry per submitted file, in
\* request order; each entry's row exists, a blob exists at the row's
\* file_path, and the row's file_size is that blob's byte length.
C2_AcceptedUpload ==
  \A r \in Reqs :
    (Done(r, "upload") /\ req[r].status = 200) =>
      /\ Len(req[r].respFiles) = Len(req[r].files)
      /\ \A k \in 1..Len(req[r].respFiles) :
           /\ req[r].respFiles[k].originalName = req[r].files[k].originalname
           /\ req[r].respFiles[k].fileName = req[r].files[k].filename
           /\ \E x \in catalog :
                /\ x.id = req[r].respFiles[k].id
                /\ x.file_path \in DOMAIN blobs
                /\ x.file_size = blobs[x.file_path]

\* the upload request of slot r was rejected by multer for a part's MIME type
\* or size
Rejected(r) == req[r].kind = "upload" /\ req[r].err \in {"fileFilter", "LIMIT_FILE_SIZE"}

PathsOf(files) == {files[k].path : k \in 1..Len(files)}

Unparsable(field) == field.given /\ field.text = "invalid"

\* C4: an upload with zero files, or with a customNames field that cannot be
\* parsed, is answered with 400 and leaves catalog and blobs as they were
\* before the request.
C4_NoSideEffects ==
  \A r \in Reqs :
    (/\ Done(r, "upload")
     /\ req[r].err = ""
     /\ Len(req[r].files) = 0 \/ Unparsable(req[r].field)) =>
      /\ req[r].status = 400
      /\ catalog = req[r].pre.catalog
      /\ blobs = req[r].pre.blobs

\* the rows of the entries 1..n of results
RowsOf(results, n) == {x \in catalog : \E k \in 1..n : results[k].id = x.id}

\* C6: when the INSERT of item k of an accepted batch fails, the response is a
\* 500 with an empty files list, the rows of items 1..k-1 stay in the catalog,
\* and no row is inserted for items k..n.
C6_PartialCommit ==
  \A r \in Reqs :
    (Done(r, "upload") /\ req[r].err = "query") =>
      LET k == Len(req[r].results) + 1
      IN  /\ k <= Len(req[r].files)
          /\ req[r].status = 500
          /\ req[r].respFiles = <<>>
          /\ Cardinality(RowsOf(req[r].results, k - 1)) = k - 1
          /\ \A j \in 1..(k - 1) :
               \E x \in catalog : /\ x.id = req[r].results[j].id
                                  /\ x.file_name = req[r].files[j].filename
                                  /\ x \notin req[r].pre.catalog
          /\ catalog = req[r].pre.catalog \cup RowsOf(req[r].results, k - 1)

\* the INSERT of the second item failed after the first was committed
C6_Witness ==
  \E r \in Reqs :
    /\ Done(r, "upload") /\ req[r].err = "query"
    /\ Len(req[r].results) = 1 /\ Len(req[r].files) = 2
    /\ req[r].status = 500

\* the customNames field is a JSON text for an array of strings
ArrayOfStrings(field) ==
  /\ field.given /\ field.text = "json"
  /\ field.json.t = "array"
  /\ \A k \in 1..Len(field.json.v) : field.json.v[k].t = "string"

\* C5: an upload whose customNames field is present but is no JSON array of
\* strings (null, a string, a number, an object, an array with an element
\* that is no string) is answered with 400 and inserts no row; it is never
\* accepted and never answered with 500 (a failure of the database apart).
C5_MalformedNamesRejected ==
  \A r \in Reqs :
    (/\ Done(r, "upload")
     /\ req[r].err # "query"
     /\ req[r].field.given /\ req[r].field.text = "json"
     /\ ~ArrayOfStrings(req[r].field)) =>
      /\ req[r].status = 400
      /\ catalog = req[r].pre.catalog

RECURSIVE TrimLeft(_)
TrimLeft(s) == IF s # <<>> /\ Head(s) \in Whitespace THEN TrimLeft(Tail(s)) ELSE s

RECURSIVE TrimRight(_)
TrimRight(s) ==
  IF s # <<>> /\ s[Len(s)] \in Whitespace THEN TrimRight(SubSeq(s, 1, Len(s) - 1)) ELSE s

Trim(s) == TrimLeft(TrimRight(s))

\* s without a trailing ".pdf"
StripTrailingPdf(s) ==
  IF Len(s) >= Len(DotPdf) /\ SubSeq(s, Len(s) - Len(DotPdf) + 1, Len(s)) = DotPdf
  THEN SubSeq(s, 1, Len(s) - Len(DotPdf))
  ELSE s

\* the name the catalog is to hold for the file at position k of a request
\* with an absent customNames field or an array of strings
ExpectedName(field, k, originalname) ==
  IF /\ ArrayOfStrings(field)
     /\ k <= Len(field.json.v)
     /\ field.json.v[k].v # <<>>
  THEN Trim(field.json.v[k].v)
  ELSE StripTrailingPdf(originalname)

\* C7: for every file of an accepted upload the stored custom_name is the
\* caller's name for its position, trimmed, when one was supplied, and
\* otherwise the declared file name without its trailing .pdf; it is never
\* empty or made of whitespace only.
C7_StoredName ==
  \A r \in Reqs :
    (/\ Done(r, "upload") /\ req[r].status = 200
     /\ ~req[r].field.given \/ ArrayOfStrings(req[r].field)) =>
      \A k \in 1..Len(req[r].respFiles) :
        \A x \in catalog :
          x.id = req[r].respFiles[k].id =>
            /\ x.custom_name = ExpectedName(req[r].field, k, req[r].files[k].originalname)
            /\ Trim(x.custom_name) # <<>>

\* C8: a list request (no failure of the database) is answered with at most
\* `limit` entries, with `total` the number of rows its filter selects (all
\* rows when there is no search) and `totalPages` the ceiling of total / limit.
C8_PageArithmetic ==
  \A r \in Reqs :
    (Done(r, "list") /\ faults = 0) =>
      /\ req[r].status = 200
      /\ Len(req[r].respFiles) <= req[r].limit
      /\ req[r].total = Cardinality({x \in catalog : whereClause(x, req[r].search)})
      /\ req[r].search = <<>> => req[r].total = Cardinality(catalog)
      /\ req[r].totalPages * req[r].limit >= req[r].total
      /\ (req[r].totalPages - 1) * req[r].limit < req[r].total

LowerAll(s) == [k \in 1..Len(s) |-> Lower(s[k])]

\* s contains pat as a substring, without regard to case
ContainsNoCase(s, pat) == IndexOf(LowerAll(s), LowerAll(pat)) # 0

LiteralMatch(x, search) ==
  \/ search = <<>>
  \/ ContainsNoCase(x.custom_name, search)
  \/ ContainsNoCase(x.original_name, search)

\* C9: a list request with a search string (no failure of the database)
\* selects exactly the rows whose custom_name or original_name contains the
\* string, without regard to case and with every character, % and _
\* included, standing for itself.
C9_LiteralSearch ==
  \A r \in Reqs :
    (Done(r, "list") /\ faults = 0 /\ req[r].search # <<>>) =>
      /\ req[r].status = 200
      /\ req[r].total = Cardinality({x \in catalog : LiteralMatch(x, req[r].search)})
      /\ \A k \in 1..Len(req[r].respFiles) :
           \E x \in catalog : /\ x.id = req[r].respFiles[k].id
                              /\ LiteralMatch(x, req[r].search)

\* the upload of slot 1 was accepted: two files, named Alpha and Beta
UploadedPair ==
  /\ Done(1, "upload") /\ req[1].status = 200
  /\ Len(req[1].respFiles) = 2
  /\ req[1].field = FieldJson(JsArr(<<JsStr(NameA), JsStr(NameB)>>))

\* the request of slot 2 is the one that arrived next, and it succeeded
NextDone(kind) == Done(2, kind) /\ req[2].status = 200 /\ req[2].n = req[1].n + 1

ListedIds(r) == {req[r].respFiles[k].id : k \in 1..Len(req[r].respFiles)}

NewestFirst(r) ==
  \A i, j \in 1..Len(req[r].respFiles) :
    i < j => req[r].respFiles[i].uploadDate >= req[r].respFiles[j].uploadDate

StatsAfterPair ==
  (UploadedPair /\ NextDone("stats")) =>
    req[2].totalFiles = Cardinality(req[1].pre.catalog) + 2

\* C10 as stated: a list comes newest first; after the upload of Alpha and
\* Beta the first page of an unfiltered list (of a size of two or more) holds
\* both, and the statistics count two rows more than before the upload.
C10_FirstPageHoldsBoth ==
  /\ \A r \in Reqs : (Done(r, "list") /\ req[r].status = 200) => NewestFirst(r)
  /\ (UploadedPair /\ NextDone("list") /\ req[2].search = <<>> /\ req[2].page = 1
        /\ req[2].limit >= 2) =>
       {req[1].respFiles[1].id, req[1].respFiles[2].id} \subseteq ListedIds(2)
  /\ StatsAfterPair

\* the rows that are not older than the row of Alpha
NotOlderThanAlpha ==
  {x \in catalog : \A y \in catalog :
     y.id = req[1].respFiles[1].id => x.upload_date >= y.upload_date}

\* C10 as amended: the first page holds both when its size is at least the
\* number of rows that are not older than Alpha's.
C10_FirstPageHoldsBothWhenRoom ==
  /\ \A r \in Reqs : (Done(r, "list") /\ req[r].status = 200) => NewestFirst(r)
  /\ (UploadedPair /\ NextDone("list") /\ req[2].search = <<>> /\ req[2].page = 1
        /\ req[2].limit >= Cardinality(NotOlderThanAlpha)) =>
       {req[1].respFiles[1].id, req[1].respFiles[2].id} \subseteq ListedIds(2)
  /\ StatsAfterPair

\* Alpha and Beta on a first page of two, an older row left for the second
C10_Witness ==
  /\ UploadedPair /\ NextDone("list") /\ req[2].search = <<>> /\ req[2].page = 1
  /\ req[2].limit = 2
  /\ Cardinality(catalog) = 3
  /\ Cardinality(NotOlderThanAlpha) = 2
  /\ ListedIds(2) = {req[1].respFiles[1].id, req[1].respFiles[2].id}

\* no failure of the environment since the request of slot r arrived
NoFault(r) == faults = req[r].pre.faults

RowsWithId(S, id) == {x \in S : x.id = id}

\* C11: a delete for an id without a row is answered 404 and leaves catalog
\* and blobs as they were; a delete for an id with a row is answered 200, and
\* then no row has the id and no blob is at the row's file_path (no failure of
\* the environment, one request at a time).
C11_Delete ==
  \A r \in Reqs :
    (Done(r, "delete") /\ NoFault(r)) =>
      IF RowsWithId(req[r].pre.catalog, req[r].id) = {}
      THEN /\ req[r].status = 404
           /\ catalog = req[r].pre.catalog
           /\ blobs = req[r].pre.blobs
      ELSE /\ req[r].status = 200
           /\ RowsWithId(catalog, req[r].id) = {}
           /\ req[r].row \in req[r].pre.catalog
           /\ req[r].row.file_path \notin DOMAIN blobs

\* slot 1 holds a delete answered 200, slot 2 a download of the same id that
\* arrived later and met no failure
DownloadAfterDelete ==
  /\ Done(1, "delete") /\ req[1].status = 200
  /\ Done(2, "download") /\ req[2].id = req[1].id
  /\ req[2].n > req[1].n
  /\ NoFault(2)

\* C12 as stated: once a delete of id was answered 200, every download of id
\* that starts later is answered 404, whatever uploads and deletes came in
\* between.
C12_GoneForGood == DownloadAfterDelete => req[2].status = 404

\* C12 as amended: ... is answered 404, unless an upload that came in between
\* has inserted a row under the same id.
C12_GoneUnlessReinserted ==
  DownloadAfterDelete =>
    \/ req[2].status = 404
    \/ /\ req[2].n > req[1].n + 1
       /\ RowsWithId(catalog, req[1].id) # {}

\* a download of a deleted id after an upload in between
C12_Witness ==
  /\ DownloadAfterDelete
  /\ req[2].n > req[1].n + 1
  /\ catalog # {}
  /\ RowsWithId(catalog, req[1].id) = {}
  /\ req[2].status = 404

\* C13: a download (no failure of the catalog) is answered 404 exactly when
\* no row has the id or no blob is at the row's file_path; otherwise it
\* streams the blob at the row's file_path under the name custom_name.pdf.
C13_DownloadStreams ==
  \A r \in Reqs :
    (Done(r, "download") /\ NoFault(r)) =>
      LET rows == RowsWithId(catalog, req[r].id)
      IN  /\ req[r].status = 404 <=>
               (rows = {} \/ \A x \in rows : x.file_path \notin DOMAIN blobs)
          /\ req[r].status # 404 =>
               /\ req[r].status = 200
               /\ \E x \in rows : /\ req[r].sent = blobs[x.file_path]
                                  /\ req[r].sentName = x.custom_name \o DotPdf

\* C14: a delete whose row was removed from the catalog is answered 200,
\* whether the removal of the blob succeeds, finds no blob, or fails.
C14_BestEffortUnlink ==
  \A r \in Reqs :
    (/\ Done(r, "delete")
     /\ req[r].row \in req[r].pre.catalog
     /\ req[r].row \notin catalog) =>
      req[r].status = 200

\* the rows of S uploaded within the last seven days, at time t
RecentAt(S, t) == {x \in S : x.upload_date >= t - SevenDays}

\* C15: a stats response reports the number of rows, the formatted sum of
\* their file_size and the number of rows of the last seven days of one and
\* the same catalog state (a set of rows that were in the catalog at some
\* time of the request), also when an upload or a delete commits while the
\* request runs.
C15_OneSnapshot ==
  \A r \in Reqs :
    (Done(r, "stats") /\ req[r].status = 200) =>
      \E S \in SUBSET (req[r].pre.catalog \cup catalog) :
        /\ req[r].totalFiles = Cardinality(S)
        /\ req[r].totalSize = formatFileSize(SumSizes(S))
        /\ req[r].sumBytes = SumSizes(S)
        /\ \E t \in 0..now : req[r].recentUploads = Cardinality(RecentAt(S, t))

\* C16: the storage names generated for any two stored files differ, so no
\* two rows of the catalog share a file_name or a file_path.
C16_UniqueStorageNames ==
  \A x, y \in catalog :
    x # y => /\ x.file_name # y.file_name
             /\ x.file_path # y.file_path

Failed(r) ==
  \/ req[r].err \in {"EIO", "query"}
  \/ req[r].kind \in {"delete", "download", "list", "stats"} /\ ~NoFault(r)

\* C18: a request in which a blob write, a blob removal or a catalog query
\* failed is answered with status 500 and a text that is not the text of the
\* underlying error, never with a 4xx status.
C18_FailuresAre500 ==
  \A r \in Reqs :
    (req[r].pc = "done" /\ Failed(r)) =>
      /\ req[r].status = 500
      /\ req[r].errorText = ""

\* the pages that a list request with the given search, page and limit may
\* return when the catalog holds the rows S
PagesOf(S, search, page, limit) ==
  {[k \in 1..Len(rows) |-> ListEntry(rows[k])] :
     rows \in {LimitOffset(ordered, limit, (page - 1) * limit) :
                 ordered \in OrderByUploadDateDesc({x \in S : whereClause(x, search)})}}

\* C19: the page and the total (and totalPages) of a list response are those
\* of one and the same catalog state (a set of rows that were in the catalog
\* at some time of the request), also when an insert or a delete commits
\* while the request runs.
C19_OneSnapshot ==
  \A r \in Reqs :
    (Done(r, "list") /\ req[r].status = 200) =>
      \E S \in SUBSET (req[r].pre.catalog \cup catalog) :
        /\ req[r].respFiles \in PagesOf(S, req[r].search, req[r].page, req[r].limit)
        /\ req[r].total = Cardinality({x \in S : whereClause(x, req[r].search)})
        /\ req[r].totalPages = totalPagesOf(req[r].total, req[r].limit)

\* the rows an accepted upload lists in its response
NewRows(r) == RowsOf(req[r].respFiles, Len(req[r].respFiles))

UniqueIds == \A x, y \in catalog : x.id = y.id => x = y

\* an accepted upload (requests running one at a time, none arrived since)
\* has left the rows that were there in place and has added one row per file,
\* under ids that no row had
AddsRows(r) ==
  (Done(r, "upload") /\ req[r].status = 200 /\ req[r].n = ops) =>
    /\ req[r].pre.catalog \subseteq catalog
    /\ NewRows(r) \cap req[r].pre.catalog = {}
    /\ Cardinality(NewRows(r)) = Len(req[r].files)
    /\ \A x \in NewRows(r) : RowsWithId(req[r].pre.catalog, x.id) = {}

\* C20 as stated: every accepted upload adds a row per file under an id that
\* no row has or ever had (here: not the id of the row that the delete of
\* slot 1 removed before), and leaves the other rows in place; the ids of the
\* catalog's rows are pairwise distinct.
C20_IdsNeverReused ==
  /\ UniqueIds
  /\ AddsRows(2)
  /\ (/\ Done(1, "delete") /\ req[1].status = 200
      /\ Done(2, "upload") /\ req[2].status = 200
      /\ req[2].n > req[1].n) =>
       \A x \in NewRows(2) : x.id # req[1].id

\* C20 as amended: ... under an id that no row of the catalog has at the time.
C20_IdsUnique == UniqueIds /\ AddsRows(2)

\* the same file uploaded again: a second row with the same names and size
C20_Witness ==
  /\ Done(2, "upload") /\ req[2].status = 200 /\ req[2].n = ops
  /\ \E x \in req[2].pre.catalog, y \in NewRows(2) :
       /\ x.original_name = y.original_name
       /\ x.custom_name = y.custom_name
       /\ x.file_size = y.file_size
       /\ x.id # y.id
       /\ x \in catalog

\* the byte count m * 1024^e is at least 1024^j (m >= 1)
AtLeastUnit(m, e, j) == e >= j \/ m >= Pow(1024, j - e)

\* C21: formatFileSize(0) is "0 Bytes"; for a byte count of 1 or more, a
\* terabyte and more included, the unit is one of Bytes, KB, MB, GB, the
\* largest of them that the count reaches; 1536 gives "1.5 KB" and
\* 10 * 1024 * 1024 gives "10 MB".
C21_LargestUnit ==
  \A r \in Reqs :
    Done(r, "formatFileSize") =>
      LET m == req[r].sumBytes
          e == req[r].sumExp
          text == req[r].totalSize
      IN  /\ m = 0 => text = [hundredths |-> 0, unit |-> "Bytes"]
          /\ m >= 1 =>
               \E j \in 1..Len(sizes) :
                 /\ text.unit = sizes[j]
                 /\ AtLeastUnit(m, e, j - 1)
                 /\ j < Len(sizes) => ~AtLeastUnit(m, e, j)
          /\ (m = 1536 /\ e = 0) => text = [hundredths |-> 150, unit |-> "KB"]
          /\ (m = 10 /\ e = 2) => text = [hundredths |-> 1000, unit |-> "MB"]

\* C22: a delete that has come to remove the blob has removed the row before,
\* and a download that has found the row of its id finds the row's blob and
\* sends it, also when an upload or a delete runs at the same time.
C22_BlobWithRecord ==
  /\ \A r \in Reqs :
       (req[r].kind = "delete" /\ req[r].pc = "unlink") => req[r].row \notin catalog
  /\ \A r \in Reqs :
       (Done(r, "download") /\ req[r].row # NoRow) => req[r].status = 200

\* both slots hold an answered delete of the same id, which had a row when the
\* first of them arrived, and the environment has not failed
TwoDeletes ==
  /\ Done(1, "delete") /\ Done(2, "delete")
  /\ req[1].id = req[2].id
  /\ RowsWithId(req[1].pre.catalog \cup req[2].pre.catalog, req[1].id) # {}
  /\ faults = 0

\* C23: of two deletes of the same existing id that run at the same time,
\* one is answered 200 and the other 404, none 500; the row is gone and so is
\* its blob.
C23_OneDeleteWins ==
  TwoDeletes =>
    /\ {req[1].status, req[2].status} = {200, 404}
    /\ RowsWithId(catalog, req[1].id) = {}
    /\ \A x \in RowsWithId(req[1].pre.catalog \cup req[2].pre.catalog, req[1].id) :
         x.file_path \notin DOMAIN blobs

\* the ids of the rows that the filter of the list request of slot r selects
MatchingIds(r) == {x.id : x \in {y \in catalog : whereClause(y, req[r].search)}}

\* the list request of slot r was answered with page `page` of `totalPages`
PageOf(r, page, totalPages) ==
  /\ Done(r, "list") /\ req[r].status = 200
  /\ req[r].page = page /\ req[r].totalPages = totalPages

\* C24: the pages 1..totalPages of a list with one filter and one page size,
\* requested one after the other with no write in between, hold every row
\* that the filter selects exactly once, also when rows have the same
\* upload_date (here: totalPages is 1 or 2).
C24_PagesPartition ==
  /\ \A r \in Reqs :
       PageOf(r, 1, 1) =>
         /\ ListedIds(r) = MatchingIds(r)
         /\ Len(req[r].respFiles) = Cardinality(MatchingIds(r))
  /\ (/\ PageOf(1, 1, 2) /\ PageOf(2, 2, 2)
      /\ req[1].search = req[2].search /\ req[1].limit = req[2].limit) =>
       /\ ListedIds(1) \cup ListedIds(2) = MatchingIds(1)
       /\ ListedIds(1) \cap ListedIds(2) = {}
       /\ Len(req[1].respFiles) + Len(req[2].respFiles) = Cardinality(MatchingIds(1))

\* the location multer wrote the file of a row to: destination and filename,
\* taken from the working directory
writtenLocation(x) == Resolve(cwd, storagePath(x.file_name))

\* the location `fs.existsSync(file.file_path)` and `fs.unlinkSync(file.file_path)`
\* of the delete handler name
unlinkLocation(x) == Resolve(cwd, x.file_path)

\* C25: for every row, the location the download checks and streams, the
\* location the delete checks and unlinks and the location the upload wrote
\* the blob to are one and the same, whatever the working directory of the
\* process.
C25_SameLocation ==
  \A x \in catalog :
    /\ unlinkLocation(x) = writtenLocation(x)
    /\ downloadPath(x.file_path) = writtenLocation(x)

\* the blobs b hold everything that is at the paths P in the blobs a
KeepsBlobs(a, b, P) ==
  \A p \in P \cap DOMAIN a : p \in DOMAIN b /\ b[p] = a[p]

\* C26: a delete leaves every row of another id as it was and leaves the blob
\* of every such row on disk; an upload, at every point of it, has left the
\* rows and the blobs that were there as they were; a list, a download or a
\* statistics request leaves catalog and blobs as they were (requests running
\* one at a time).
C26_Frame ==
  \A r \in Reqs :
    req[r].n = ops =>
      /\ Done(r, "delete") =>
           LET others == {x \in req[r].pre.catalog : x.id # req[r].id}
           IN  /\ {x \in catalog : x.id # req[r].id} = others
               /\ KeepsBlobs(req[r].pre.blobs, blobs, {x.file_path : x \in others})
      /\ req[r].kind = "upload" =>
           /\ req[r].pre.catalog \subseteq catalog
           /\ KeepsBlobs(req[r].pre.blobs, blobs, DOMAIN req[r].pre.blobs)
      /\ req[r].kind \in {"list", "download", "stats"} =>
           /\ catalog = req[r].pre.catalog
           /\ blobs = req[r].pre.blobs

====
